---- MODULE Spec2Model ----
(***************************************************************************)
(* Experiment orchestration of main.py: dataset loading with the sampling  *)
(* policy, model construction with pretrained embedding injection,         *)
(* checkpoint restore, and the dispatch to training or inference.          *)
(*                                                                         *)
(* Tensors are abstracted to tags naming where their values come from      *)
(* ("init", "review_vectors", "summary_vectors", "ckpt").  F-scores are    *)
(* abstracted to the integers 0..MaxMetric (only their order matters).     *)
(***************************************************************************)
EXTENDS Integers, Sequences, FiniteSets, TLC

\* ---- bounds ----
MaxEpochs == 2
MaxMetric == 2

\* ---- value spaces of the configuration ----
Modes == {"train", "test", "eval"}
WeightsValues == {"absent", "falsy", "weighted", "explicit"}
LookupValues == {"absent", "true", "false"}
OptimClasses == {"sgd", "rmsprop", "other"}
ReloadValues == {"absent", "set"}
Versions == {"v1", "v2"}

\* model.__version__() of the live model
LiveVersion == "v1"

Event(e, a) == [ev |-> e, arg |-> a]

RangeOf(s) == {s[i] : i \in 1..Len(s)}

RECURSIVE MapEvents(_, _)
MapEvents(e, s) == IF s = <<>> THEN <<>> ELSE <<Event(e, Head(s))>> \o MapEvents(e, Tail(s))

\* ---- the checkpoint file at join(save_dir, config['reload']) ----
CkptStateDict == [review_lookup |-> "ckpt", summary_lookup |-> "ckpt", other |-> "ckpt"]

NoFile ==
  [exists |-> FALSE, epoch |-> 0, fscore |-> 0, model_version |-> LiveVersion,
   state_dict |-> [review_lookup |-> "none", summary_lookup |-> "none", other |-> "none"],
   optimizer |-> "none"]

CheckpointFiles ==
  {[exists |-> TRUE, epoch |-> e, fscore |-> f, model_version |-> v,
    state_dict |-> CkptStateDict, optimizer |-> "ckpt"] :
     e \in 0..MaxEpochs, f \in 0..MaxMetric, v \in Versions}

\* ---- objects ----
NoModel ==
  [built |-> FALSE, version |-> LiveVersion, device |-> "cpu", trained |-> FALSE,
   state_dict |-> [review_lookup |-> "none", summary_lookup |-> "none", other |-> "none"]]

NoOptimizer == [present |-> FALSE, class |-> "none", state |-> "none"]

NoScheduler == [present |-> FALSE, optimizer_state |-> "none", state |-> "none"]

NoTraining == [active |-> FALSE, epoch |-> 0, num_epochs |-> 0, best_fscore |-> 0]

NoSave == [written |-> FALSE, epoch |-> 0, fscore |-> 0]

NoReload == [called |-> FALSE, optimizer |-> NoOptimizer, best_fscore |-> 0, start_epoch |-> 0]

VARIABLES
  config,       \* the configuration mapping
  ckptFile,     \* the file at the reload path, if any
  pc,           \* index of the next statement of main
  dataloaders,  \* phase -> [shuffle, sampler]
  vocabs,       \* [review, summary]: which vocabulary object each name holds
  model,
  optimizer,
  scheduler,
  best_fscore,  \* main's best_fscore, as returned by reload
  start_epoch,  \* main's start_epoch, as returned by reload
  tm,           \* the frame of train_model
  lastMetric,   \* validation metric of the last completed epoch
  epochsRun,    \* epochs completed by train_model
  ckptWrites,   \* checkpoints written by train_model
  saved,        \* the last checkpoint written
  inferCalls,   \* calls of test_model
  reloaded,     \* the value returned by the call of reload
  events        \* log lines and tensor operations, in program order

vars == <<config, ckptFile, pc, dataloaders, vocabs, model, optimizer, scheduler,
          best_fscore, start_epoch, tm, lastMetric, epochsRun, ckptWrites, saved,
          inferCalls, reloaded, events>>

\* ---- main: phases and statement order ----
phases_of(mode) == IF mode = "test" THEN <<"test">> ELSE <<"train", "val">>

\* main with test_model called before the checkpoint is restored
mainSteps_testBeforeReload(mode) ==
  IF mode = "train"
    THEN <<"load_datasets", "build_model", "optimizer", "reload", "scheduler", "train_model">>
    ELSE IF mode = "test"
      THEN <<"load_datasets", "build_model", "test_model", "reload">>
      ELSE <<"load_datasets", "build_model", "invalid_mode">>

\* main with the checkpoint restored before the embeddings are injected
mainSteps_reloadBeforeBuild(mode) ==
  IF mode = "train"
    THEN <<"load_datasets", "optimizer", "reload", "build_model", "scheduler", "train_model">>
    ELSE IF mode = "test"
      THEN <<"load_datasets", "reload", "build_model", "test_model">>
      ELSE <<"load_datasets", "build_model", "invalid_mode">>

mainSteps(mode) ==
  IF mode = "train"
    THEN <<"load_datasets", "build_model", "optimizer", "reload", "scheduler", "train_model">>
    ELSE IF mode = "test"
      THEN <<"load_datasets", "build_model", "reload", "test_model">>
      ELSE <<"load_datasets", "build_model", "invalid_mode">>

Steps == mainSteps(config.mode)

AtStep(s) == pc <= Len(Steps) /\ Steps[pc] = s

Done == pc > Len(Steps)

\* ---- load_datasets ----
WeightsFalsy(w) == w \in {"absent", "falsy"}

\* load_datasets with the sampler handed to every phase
loader_of_samplerEveryPhase(w, x) ==
  IF WeightsFalsy(w)
    THEN [shuffle |-> (x = "train"), sampler |-> "none"]
    ELSE [shuffle |-> FALSE, sampler |-> IF w = "weighted" THEN "auto" ELSE "explicit"]

loader_of(w, x) ==
  IF WeightsFalsy(w)
    THEN [shuffle |-> (x = "train"), sampler |-> "none"]
    ELSE [shuffle |-> FALSE,
          sampler |-> IF x = "train"
                        THEN (IF w = "weighted" THEN "auto" ELSE "explicit")
                        ELSE "none"]

load_datasets(cfg, phases) ==
  LET summary_vocab == IF cfg.same_vocab THEN "review" ELSE "summary"
      loads == IF cfg.same_vocab
                 THEN <<Event("load_vocab", "review")>>
                 ELSE <<Event("load_vocab", "review"), Event("load_vocab", "summary")>>
  IN [dataloaders |-> [x \in RangeOf(phases) |-> loader_of(cfg.weights, x)],
      review_vocab |-> "review",
      summary_vocab |-> summary_vocab,
      events |-> <<Event("log", "loading_vocabularies")>> \o loads
                 \o <<Event("log", "loading_datasets")>>
                 \o MapEvents("dataset", phases)
                 \o MapEvents("dataloader", phases)
                 \o <<Event("log", "dataset_sizes"), Event("log", "review_vocab_size"),
                      Event("log", "summary_vocab_size")>>]

LoadDatasets ==
  /\ AtStep("load_datasets")
  /\ LET r == load_datasets(config, phases_of(config.mode))
     IN /\ dataloaders' = r.dataloaders
        /\ vocabs' = [review |-> r.review_vocab, summary |-> r.summary_vocab]
        /\ events' = events \o <<Event("log", "config")>> \o r.events
  /\ pc' = pc + 1
  /\ UNCHANGED <<config, ckptFile, model, optimizer, scheduler, best_fscore, start_epoch,
                 tm, lastMetric, epochsRun, ckptWrites, saved, inferCalls, reloaded>>

\* ---- build_model ----
VectorsOf(vocab) == IF vocab = "review" THEN "review_vectors" ELSE "summary_vectors"

\* build_model that ignores combined_lookup when copying the summary vectors
build_model_ignoreCombined(cfg, review_vocab, summary_vocab) ==
  LET m0 == [built |-> TRUE, version |-> LiveVersion, device |-> "cpu", trained |-> FALSE,
             state_dict |-> [review_lookup |-> "init", summary_lookup |-> "init",
                             other |-> "init"]]
      m1 == [m0 EXCEPT !.state_dict.review_lookup = VectorsOf(review_vocab)]
      combined == IF cfg.combined_lookup = "absent" THEN "false" ELSE cfg.combined_lookup
      copySummary == cfg.use_summary
      m2 == IF copySummary
              THEN [m1 EXCEPT !.state_dict.summary_lookup = VectorsOf(summary_vocab)]
              ELSE m1
      m3 == IF cfg.use_gpu THEN [m2 EXCEPT !.device = "cuda"] ELSE m2
  IN [model |-> m3,
      config |-> [cfg EXCEPT !.combined_lookup = combined],
      events |-> <<Event("HAN", "cpu"), Event("log", "model"), Event("copy", "review_lookup")>>
                 \o (IF copySummary THEN <<Event("copy", "summary_lookup")>> ELSE <<>>)
                 \o (IF cfg.use_gpu THEN <<Event("cuda", "model")>> ELSE <<>>)]

build_model(cfg, review_vocab, summary_vocab) ==
  LET m0 == [built |-> TRUE, version |-> LiveVersion, device |-> "cpu", trained |-> FALSE,
             state_dict |-> [review_lookup |-> "init", summary_lookup |-> "init",
                             other |-> "init"]]
      m1 == [m0 EXCEPT !.state_dict.review_lookup = VectorsOf(review_vocab)]
      combined == IF cfg.combined_lookup = "absent" THEN "false" ELSE cfg.combined_lookup
      copySummary == cfg.use_summary /\ combined # "true"
      m2 == IF copySummary
              THEN [m1 EXCEPT !.state_dict.summary_lookup = VectorsOf(summary_vocab)]
              ELSE m1
      m3 == IF cfg.use_gpu THEN [m2 EXCEPT !.device = "cuda"] ELSE m2
  IN [model |-> m3,
      config |-> [cfg EXCEPT !.combined_lookup = combined],
      events |-> <<Event("HAN", "cpu"), Event("log", "model"), Event("copy", "review_lookup")>>
                 \o (IF copySummary THEN <<Event("copy", "summary_lookup")>> ELSE <<>>)
                 \o (IF cfg.use_gpu THEN <<Event("cuda", "model")>> ELSE <<>>)]

BuildModel ==
  /\ AtStep("build_model")
  /\ LET r == build_model(config, vocabs.review, vocabs.summary)
     IN /\ model' = r.model
        /\ config' = r.config
        /\ events' = events \o r.events
  /\ pc' = pc + 1
  /\ UNCHANGED <<ckptFile, dataloaders, vocabs, optimizer, scheduler, best_fscore,
                 start_epoch, tm, lastMetric, epochsRun, ckptWrites, saved, inferCalls, reloaded>>

\* ---- optimizer selection in main ----
optimizer_of(class) ==
  [present |-> TRUE,
   class |-> IF class = "sgd" THEN "SGD" ELSE IF class = "rmsprop" THEN "RMSprop" ELSE "Adam",
   state |-> "fresh"]

SelectOptimizer ==
  /\ AtStep("optimizer")
  /\ optimizer' = optimizer_of(config.optim_class)
  /\ events' = events \o <<Event("optimizer", optimizer'.class)>>
  /\ pc' = pc + 1
  /\ UNCHANGED <<config, ckptFile, dataloaders, vocabs, model, scheduler, best_fscore,
                 start_epoch, tm, lastMetric, epochsRun, ckptWrites, saved, inferCalls,
                 reloaded>>

\* ---- reload ----
\* what reload does once it has decided to load the file
LoadFrom(file, m, opt, optSupplied) ==
  [model |-> [m EXCEPT !.state_dict = file.state_dict],
   optimizer |-> IF optSupplied THEN [opt EXCEPT !.state = file.optimizer] ELSE opt,
   best_fscore |-> file.fscore,
   start_epoch |-> file.epoch,
   events |-> <<Event("log", "loading_checkpoint"), Event("torch.load", "reload_path")>>
              \o (IF m.version # file.model_version
                    THEN <<Event("log_nologfile", "version_mismatch")>>
                    ELSE <<>>)
              \o <<Event("load_state_dict", "model")>>
              \o (IF optSupplied THEN <<Event("load_state_dict", "optimizer")>> ELSE <<>>)]

FreshStart(m, opt, evs) ==
  [model |-> m, optimizer |-> opt, best_fscore |-> 0, start_epoch |-> 0, events |-> evs]

\* reload without the exists() test
reload_noExistsTest(cfg, file, m, opt) ==
  IF cfg.reload = "absent"
    THEN FreshStart(m, opt, <<>>)
    ELSE LoadFrom(file, m, opt, opt.present)

\* reload that gives up on a version mismatch
reload_strictVersion(cfg, file, m, opt) ==
  IF cfg.reload = "absent"
    THEN FreshStart(m, opt, <<>>)
    ELSE IF file.exists
      THEN IF m.version # file.model_version
             THEN FreshStart(m, opt, <<Event("log_nologfile", "version_mismatch")>>)
             ELSE LoadFrom(file, m, opt, opt.present)
      ELSE FreshStart(m, opt, <<Event("log", "no_checkpoint_found")>>)

\* reload that applies the optimizer entry whether or not an optimizer was supplied
reload_alwaysOptimizer(cfg, file, m, opt) ==
  IF cfg.reload = "absent"
    THEN FreshStart(m, opt, <<>>)
    ELSE IF file.exists
      THEN LoadFrom(file, m, opt, TRUE)
      ELSE FreshStart(m, opt, <<Event("log", "no_checkpoint_found")>>)

reload(cfg, file, m, opt) ==
  IF cfg.reload = "absent"
    THEN FreshStart(m, opt, <<>>)
    ELSE IF file.exists
      THEN LoadFrom(file, m, opt, opt.present)
      ELSE FreshStart(m, opt, <<Event("log", "no_checkpoint_found")>>)

\* the optimizer argument of the call of reload
PassedOptimizer == IF config.mode = "train" THEN optimizer ELSE NoOptimizer

\* main, line 128 (train) and line 142 (test, which keeps only the model)
Reload ==
  /\ AtStep("reload")
  /\ LET r == reload(config, ckptFile, model, PassedOptimizer)
     IN /\ model' = r.model
        /\ reloaded' = [called |-> TRUE, optimizer |-> r.optimizer,
                        best_fscore |-> r.best_fscore, start_epoch |-> r.start_epoch]
        /\ IF config.mode = "train"
             THEN /\ optimizer' = r.optimizer
                  /\ best_fscore' = r.best_fscore
                  /\ start_epoch' = r.start_epoch
                  /\ events' = events \o r.events \o <<Event("log", "optimizer")>>
             ELSE /\ UNCHANGED <<optimizer, best_fscore, start_epoch>>
                  /\ events' = events \o r.events
  /\ pc' = pc + 1
  /\ UNCHANGED <<config, ckptFile, dataloaders, vocabs, scheduler, tm, lastMetric,
                 epochsRun, ckptWrites, saved, inferCalls>>

\* ---- scheduler construction in main ----
MakeScheduler ==
  /\ AtStep("scheduler")
  /\ scheduler' = [present |-> TRUE, optimizer_state |-> optimizer.state, state |-> "fresh"]
  /\ events' = events \o <<Event("criterion", "CrossEntropyLoss"),
                           Event("scheduler", "ReduceLROnPlateau"),
                           Event("log", "scheduler")>>
  /\ pc' = pc + 1
  /\ UNCHANGED <<config, ckptFile, dataloaders, vocabs, model, optimizer, best_fscore,
                 start_epoch, tm, lastMetric, epochsRun, ckptWrites, saved, inferCalls,
                 reloaded>>

\* ---- the call of train_model ----
\* the call with num_epochs counted from the restored epoch
TrainArgs_relativeEpochs(cfg, best, start) ==
  [active |-> TRUE, epoch |-> start, num_epochs |-> start + cfg.n_epochs, best_fscore |-> best]

\* the call without the restored best f-score
TrainArgs_zeroBest(cfg, best, start) ==
  [active |-> TRUE, epoch |-> start, num_epochs |-> cfg.n_epochs, best_fscore |-> 0]

TrainArgs(cfg, best, start) ==
  [active |-> TRUE, epoch |-> start, num_epochs |-> cfg.n_epochs, best_fscore |-> best]

CallTrainModel ==
  /\ AtStep("train_model")
  /\ ~tm.active
  /\ tm' = TrainArgs(config, best_fscore, start_epoch)
  /\ events' = events \o <<Event("log", "begin_training")>>
  /\ UNCHANGED <<config, ckptFile, pc, dataloaders, vocabs, model, optimizer, scheduler,
                 best_fscore, start_epoch, lastMetric, epochsRun, ckptWrites, saved,
                 inferCalls, reloaded>>

\* ---- train_model: one epoch, then the checkpoint decision ----
TrainEpoch ==
  /\ AtStep("train_model")
  /\ tm.active
  /\ tm.epoch < tm.num_epochs
  /\ \E metric \in 0..MaxMetric :
       /\ lastMetric' = metric
       /\ IF metric > tm.best_fscore
            THEN /\ tm' = [tm EXCEPT !.epoch = @ + 1, !.best_fscore = metric]
                 /\ ckptWrites' = ckptWrites + 1
                 /\ saved' = [written |-> TRUE, epoch |-> tm.epoch, fscore |-> metric]
                 /\ events' = events \o <<Event("save_checkpoint", "save_dir")>>
            ELSE /\ tm' = [tm EXCEPT !.epoch = @ + 1]
                 /\ UNCHANGED <<ckptWrites, saved, events>>
  /\ model' = [model EXCEPT !.trained = TRUE]
  /\ epochsRun' = epochsRun + 1
  /\ UNCHANGED <<config, ckptFile, pc, dataloaders, vocabs, optimizer, scheduler,
                 best_fscore, start_epoch, inferCalls, reloaded>>

TrainReturn ==
  /\ AtStep("train_model")
  /\ tm.active
  /\ tm.epoch >= tm.num_epochs
  /\ tm' = [tm EXCEPT !.active = FALSE]
  /\ pc' = pc + 1
  /\ UNCHANGED <<config, ckptFile, dataloaders, vocabs, model, optimizer, scheduler,
                 best_fscore, start_epoch, lastMetric, epochsRun, ckptWrites, saved,
                 inferCalls, reloaded, events>>

\* ---- the call of test_model ----
TestArgs(cfg, loaders, m) ==
  [dataloader |-> "test", loader |-> loaders["test"], outputfile |-> cfg.outputfile,
   use_gpu |-> cfg.use_gpu, state_dict |-> m.state_dict]

TestModel ==
  /\ AtStep("test_model")
  /\ inferCalls' = Append(inferCalls, TestArgs(config, dataloaders, model))
  /\ events' = events \o <<Event("log_nologfile", "testing"), Event("test_model", "test")>>
  /\ pc' = pc + 1
  /\ UNCHANGED <<config, ckptFile, dataloaders, vocabs, model, optimizer, scheduler,
                 best_fscore, start_epoch, tm, lastMetric, epochsRun, ckptWrites, saved,
                 reloaded>>

\* ---- the final else of main ----
InvalidMode ==
  /\ AtStep("invalid_mode")
  /\ events' = events \o <<Event("log", "invalid_config_mode")>>
  /\ pc' = pc + 1
  /\ UNCHANGED <<config, ckptFile, dataloaders, vocabs, model, optimizer, scheduler,
                 best_fscore, start_epoch, tm, lastMetric, epochsRun, ckptWrites, saved,
                 inferCalls, reloaded>>

\* ---- the configurations and checkpoint files a run can start from ----
\* Keys that a mode never reads are held at one value: optim and training.n_epochs
\* are read only in the train branch of main, outputfile only in the test branch.
Configs ==
  {c \in [mode : Modes, weights : WeightsValues, same_vocab : BOOLEAN,
          combined_lookup : LookupValues, use_summary : BOOLEAN, use_gpu : BOOLEAN,
          reload : ReloadValues, optim_class : OptimClasses, n_epochs : 0..MaxEpochs,
          outputfile : {"out_a", "out_b"}] :
     /\ c.mode # "train" => (c.optim_class = "other" /\ c.n_epochs = 0)
     /\ c.mode # "test" => c.outputfile = "out_a"}

Init ==
  /\ config \in Configs
  /\ ckptFile \in IF config.reload = "absent" THEN {NoFile} ELSE {NoFile} \cup CheckpointFiles
  /\ pc = 1
  /\ dataloaders = [x \in {} |-> [shuffle |-> FALSE, sampler |-> "none"]]
  /\ vocabs = [review |-> "none", summary |-> "none"]
  /\ model = NoModel
  /\ optimizer = NoOptimizer
  /\ scheduler = NoScheduler
  /\ best_fscore = 0
  /\ start_epoch = 0
  /\ tm = NoTraining
  /\ lastMetric = 0
  /\ epochsRun = 0
  /\ ckptWrites = 0
  /\ saved = NoSave
  /\ inferCalls = <<>>
  /\ reloaded = NoReload
  /\ events = <<>>

Next ==
  \/ LoadDatasets
  \/ BuildModel
  \/ SelectOptimizer
  \/ Reload
  \/ MakeScheduler
  \/ CallTrainModel
  \/ TrainEpoch
  \/ TrainReturn
  \/ TestModel
  \/ InvalidMode

Spec == Init /\ [][Next]_vars

\* ---- helpers of the properties ----
Found == config.reload = "set" /\ ckptFile.exists

\* the events a step appends
NewEvents == SubSeq(events', Len(events) + 1, Len(events'))

Has(evs, e, a) == \E i \in 1..Len(evs) : evs[i] = Event(e, a)

Count(evs, e) == Cardinality({i \in 1..Len(evs) : evs[i].ev = e})

\* best_metric at the start of training: 0 when fresh, the checkpoint's fscore when resumed
InitialBest == IF Found THEN ckptFile.fscore ELSE 0

InitialEpoch == IF Found THEN ckptFile.epoch ELSE 0

\* C1: with no `reload` key, or with no file at the reload path, reload returns
\* best_metric 0 and start_epoch 0, leaves the model and the optimizer as they were
\* passed in, performs no load_state_dict, and the run goes on to the next statement.
C1_FreshStart ==
  [][(AtStep("reload") /\ ~Found) =>
       /\ reloaded'.called
       /\ reloaded'.best_fscore = 0
       /\ reloaded'.start_epoch = 0
       /\ model' = model
       /\ reloaded'.optimizer = PassedOptimizer
       /\ optimizer' = optimizer
       /\ ~Has(NewEvents, "load_state_dict", "model")
       /\ ~Has(NewEvents, "load_state_dict", "optimizer")
       /\ pc' = pc + 1]_vars

C1_Witness ==
  /\ reloaded.called
  /\ config.reload = "set"
  /\ ~ckptFile.exists
  /\ config.mode = "train"
  /\ optimizer.state = "fresh"
  /\ model.state_dict.review_lookup = "review_vectors"

\* C2: when the file exists, a warning is logged exactly when the checkpoint's
\* model_version differs from the live model's, and in either case the weights are
\* loaded, epoch and fscore come from the checkpoint, and the run continues.
C2_VersionMismatch ==
  [][(AtStep("reload") /\ Found) =>
       /\ Has(NewEvents, "log_nologfile", "version_mismatch")
            <=> (ckptFile.model_version # model.version)
       /\ Has(NewEvents, "load_state_dict", "model")
       /\ model'.state_dict = ckptFile.state_dict
       /\ reloaded'.start_epoch = ckptFile.epoch
       /\ reloaded'.best_fscore = ckptFile.fscore
       /\ pc' = pc + 1]_vars

C2_Witness ==
  /\ reloaded.called
  /\ Found
  /\ ckptFile.model_version # model.version
  /\ Has(events, "log_nologfile", "version_mismatch")
  /\ model.state_dict = CkptStateDict
  /\ reloaded.start_epoch = ckptFile.epoch
  /\ Done

\* C3: when the file exists, reload returns the snapshot's epoch and fscore, loads
\* the snapshot's state_dict into the model, and applies the snapshot's optimizer
\* entry iff an optimizer was supplied; in the test-mode call the returned optimizer
\* is None.
C3_Restore ==
  [][(AtStep("reload") /\ Found) =>
       /\ reloaded'.start_epoch = ckptFile.epoch
       /\ reloaded'.best_fscore = ckptFile.fscore
       /\ model'.state_dict = ckptFile.state_dict
       /\ Has(NewEvents, "load_state_dict", "optimizer") <=> PassedOptimizer.present
       /\ PassedOptimizer.present =>
            reloaded'.optimizer = [PassedOptimizer EXCEPT !.state = ckptFile.optimizer]
       /\ ~PassedOptimizer.present => reloaded'.optimizer = NoOptimizer
       /\ config.mode = "test" => (~PassedOptimizer.present /\ optimizer' = NoOptimizer)
       /\ config.mode = "train" => (PassedOptimizer.present /\ optimizer'.state = "ckpt")]_vars

C3_Witness ==
  /\ reloaded.called
  /\ Found
  /\ config.mode = "test"
  /\ reloaded.optimizer = NoOptimizer
  /\ reloaded.start_epoch = ckptFile.epoch
  /\ ckptFile.epoch > 0
  /\ model.state_dict = CkptStateDict

\* C4: train_model is called with the configured n_epochs and the restored
\* start_epoch; a run resumed at epoch k with n_epochs = k + j completes exactly j
\* epochs, and a fresh run completes exactly n_epochs epochs.
C4_EpochCount ==
  /\ tm.active =>
       /\ tm.num_epochs = config.n_epochs
       /\ tm.epoch = InitialEpoch + epochsRun
       /\ start_epoch = InitialEpoch
  /\ (Done /\ config.mode = "train") =>
       /\ config.n_epochs >= InitialEpoch => epochsRun = config.n_epochs - InitialEpoch
       /\ ~Found => epochsRun = config.n_epochs

C4_Witness ==
  /\ Done
  /\ config.mode = "train"
  /\ Found
  /\ ckptFile.epoch = 1
  /\ config.n_epochs = 2
  /\ epochsRun = 1

\* C5: an epoch writes a checkpoint iff its validation metric improves on
\* best_metric, which is then updated to it; best_metric starts at 0 on a fresh run
\* and at the restored fscore on a resumed run, so no checkpoint is written for a
\* metric that does not improve on the restored fscore, and a fresh one-epoch run
\* writes exactly one checkpoint iff its metric exceeds 0.
C5_CheckpointOnImprovement ==
  [][/\ (AtStep("train_model") /\ ~tm.active) => tm'.best_fscore = InitialBest
     /\ (epochsRun' = epochsRun + 1) =>
          /\ ckptWrites' = ckptWrites + (IF lastMetric' > tm.best_fscore THEN 1 ELSE 0)
          /\ tm'.best_fscore =
               (IF lastMetric' > tm.best_fscore THEN lastMetric' ELSE tm.best_fscore)
          /\ ckptWrites' # ckptWrites =>
               (lastMetric' > InitialBest /\ saved'.fscore = lastMetric')
          /\ (~Found /\ config.n_epochs = 1) =>
               (ckptWrites' = (IF lastMetric' > 0 THEN 1 ELSE 0))]_vars

C5_Witness ==
  /\ Done
  /\ config.mode = "train"
  /\ Found
  /\ ckptFile.fscore = 1
  /\ epochsRun = 2
  /\ ckptWrites = 1
  /\ lastMetric = 1
  /\ saved.fscore = 2

\* C6: a phase's dataloader has a sampler iff the phase is train and weights is
\* truthy (automatic for "weighted", explicit otherwise), shuffles iff the phase is
\* train and weights is absent or falsy, and never has both.
C6_SamplingPolicy ==
  /\ pc > 1 => DOMAIN dataloaders = RangeOf(phases_of(config.mode))
  /\ \A x \in DOMAIN dataloaders :
       LET truthy == config.weights \in {"weighted", "explicit"}
           d == dataloaders[x]
       IN /\ (d.sampler # "none") <=> (x = "train" /\ truthy)
          /\ (x = "train" /\ config.weights = "weighted") => d.sampler = "auto"
          /\ (x = "train" /\ config.weights = "explicit") => d.sampler = "explicit"
          /\ d.shuffle <=> (x = "train" /\ ~truthy)
          /\ x # "train" => (~d.shuffle /\ d.sampler = "none")
          /\ ~(d.shuffle /\ d.sampler # "none")

C6_Witness ==
  /\ DOMAIN dataloaders = {"train", "val"}
  /\ config.weights = "explicit"
  /\ dataloaders["train"].sampler = "explicit"
  /\ dataloaders["val"].sampler = "none"

\* C7: build_model always copies the review vectors into the review lookup table,
\* copies the summary vectors into the summary lookup table iff use_summary is true
\* and combined_lookup is false or absent (absent being set to false), copies exactly
\* once when combined_lookup is true, and moves the model to the accelerator only
\* after the copies.
C7_EmbeddingInjection ==
  [][AtStep("build_model") =>
       LET copySummary == config.use_summary /\ config.combined_lookup \in {"absent", "false"}
           new == NewEvents
       IN /\ Has(new, "copy", "review_lookup")
          /\ model'.state_dict.review_lookup = VectorsOf(vocabs.review)
          /\ Has(new, "copy", "summary_lookup") <=> copySummary
          /\ model'.state_dict.summary_lookup =
               (IF copySummary THEN VectorsOf(vocabs.summary) ELSE "init")
          /\ config.combined_lookup = "true" => Count(new, "copy") = 1
          /\ config'.combined_lookup =
               (IF config.combined_lookup = "absent" THEN "false" ELSE config.combined_lookup)
          /\ Has(new, "cuda", "model") <=> config.use_gpu
          /\ (model'.device = "cuda") <=> config.use_gpu
          /\ \A i, j \in 1..Len(new) :
               (new[i].ev = "cuda" /\ new[j].ev = "copy") => j < i]_vars

C7_Witness ==
  /\ model.built
  /\ config.use_summary
  /\ config.combined_lookup = "true"
  /\ config.use_gpu
  /\ model.device = "cuda"
  /\ model.state_dict.summary_lookup = "init"
  /\ Count(events, "copy") = 1

\* C8: with a mode that is neither train nor test, no dataset is loaded, no model is
\* constructed, neither training nor inference is performed, and the run ends with
\* the invalid-mode message logged.
C8_InvalidModeFailsFirst ==
  config.mode \notin {"train", "test"} =>
    /\ DOMAIN dataloaders = {}
    /\ ~model.built
    /\ epochsRun = 0
    /\ inferCalls = <<>>
    /\ Done => Has(events, "log", "invalid_config_mode")

\* C9: in test mode only the test phase is loaded, no optimizer or scheduler is
\* constructed, train_model is never entered and no checkpoint is written, and
\* test_model is called exactly once, on the test dataloader with the configured
\* output path, after the checkpoint restore.
C9_TestMode ==
  config.mode = "test" =>
    /\ DOMAIN dataloaders \subseteq {"test"}
    /\ pc > 1 => DOMAIN dataloaders = {"test"}
    /\ ~optimizer.present
    /\ ~scheduler.present
    /\ ~tm.active
    /\ epochsRun = 0
    /\ ckptWrites = 0
    /\ ~saved.written
    /\ Len(inferCalls) <= 1
    /\ inferCalls # <<>> =>
         /\ reloaded.called
         /\ inferCalls[1].dataloader = "test"
         /\ inferCalls[1].loader = dataloaders["test"]
         /\ inferCalls[1].outputfile = config.outputfile
         /\ Found => inferCalls[1].state_dict = ckptFile.state_dict
    /\ Done => Len(inferCalls) = 1

C9_Witness ==
  /\ config.mode = "test"
  /\ Done
  /\ Found
  /\ Len(inferCalls) = 1
  /\ inferCalls[1].outputfile = "out_b"
  /\ inferCalls[1].state_dict = CkptStateDict

\* C10: the startup steps run in the order load datasets, build model, (train)
\* optimizer, restore, (train) scheduler, then train or infer; so when a checkpoint
\* is found the parameters at the start of training or inference are the
\* checkpoint's, not the pretrained vectors, and the scheduler is created fresh on
\* the already-restored optimizer.
C10_StartupOrder ==
  /\ model.built => pc > 1
  /\ optimizer.present => model.built
  /\ reloaded.called => (model.built /\ (config.mode = "train" => optimizer.present))
  /\ scheduler.present => reloaded.called
  /\ (tm.active \/ epochsRun > 0) => scheduler.present
  /\ inferCalls # <<>> => reloaded.called
  /\ ((AtStep("train_model") /\ epochsRun = 0) \/ AtStep("test_model")) =>
       /\ reloaded.called
       /\ Found => (model.state_dict = ckptFile.state_dict
                    /\ model.state_dict.review_lookup # "review_vectors")
       /\ ~Found => model.state_dict.review_lookup = "review_vectors"
  /\ scheduler.present =>
       /\ scheduler.state = "fresh"
       /\ scheduler.optimizer_state = optimizer.state
       /\ Found => scheduler.optimizer_state = "ckpt"

C10_Witness ==
  /\ AtStep("train_model")
  /\ tm.active
  /\ epochsRun = 0
  /\ Found
  /\ model.state_dict = CkptStateDict
  /\ scheduler.present
  /\ scheduler.optimizer_state = "ckpt"

====
